---- MODULE Spec2Model ----
(***************************************************************************)
(* Two teaching notebooks on covariance and correlation, each modelled as  *)
(* an IPython kernel that runs its code cells once, top to bottom:         *)
(*   part 1  src/unnamed/part_000  (mean, NaN, variance, covariance of     *)
(*           two series)                                                  *)
(*   part 2  src/03_covariance/covariance_correlation_part2.ipynb          *)
(*           (symmetric matrices, covariance/correlation matrices)         *)
(*                                                                         *)
(* Numbers.  A NumPy float is modelled by the exact value it denotes:      *)
(* a record [n, d, r] standing for (n/d)*sqrt(r), r a square-free          *)
(* positive integer, n/d in lowest terms.  d = 0 gives the IEEE special    *)
(* values: 0/0 is NaN, 1/0 is +inf, -1/0 is -inf.  Binary64 rounding is    *)
(* not modelled: two results are equal here when the quantities they       *)
(* denote are equal, which is what the notebooks compare in their printed  *)
(* outputs.                                                                *)
(***************************************************************************)
EXTENDS Integers, Sequences, FiniteSets, TLC

VARIABLES data, pc, ns, out, err

vars == <<data, pc, ns, out, err>>

-----------------------------------------------------------------------------
(* Bounds of the generated data sets. *)

MaxRows == 3

MaxCols == 2

MaxWeight == 2

MaxLen == 3

-----------------------------------------------------------------------------
(* Exact arithmetic on the values NumPy floats denote. *)

Abs(i) == IF i < 0 THEN -i ELSE i

Sign(i) == IF i < 0 THEN -1 ELSE IF i = 0 THEN 0 ELSE 1

RECURSIVE GCD(_, _)
GCD(a, b) == IF b = 0 THEN a ELSE GCD(b, a % b)

RECURSIVE SquarePart(_, _)
\* the largest t <= s whose square divides r
SquarePart(r, s) == IF s <= 1 THEN 1
                    ELSE IF r % (s * s) = 0 THEN s
                    ELSE SquarePart(r, s - 1)

RECURSIVE ISqrt(_, _)
ISqrt(r, s) == IF (s + 1) * (s + 1) > r THEN s ELSE ISqrt(r, s + 1)

NaN == [n |-> 0, d |-> 0, r |-> 1]

PosInf == [n |-> 1, d |-> 0, r |-> 1]

Zero == [n |-> 0, d |-> 1, r |-> 1]

Num(i) == [n |-> i, d |-> 1, r |-> 1]

One == Num(1)

\* (n/d)*sqrt(r) in canonical form
Norm(n, d, r) ==
    IF d = 0 THEN [n |-> Sign(n), d |-> 0, r |-> 1]
    ELSE IF n = 0 \/ r = 0 THEN Zero
    ELSE LET s  == SquarePart(r, ISqrt(r, 1))
             n1 == n * s * Sign(d)
             d1 == Abs(d)
             g  == GCD(Abs(n1), d1)
         IN  [n |-> n1 \div g, d |-> d1 \div g, r |-> r \div (s * s)]

IsNaN(a) == a.d = 0 /\ a.n = 0

IsInf(a) == a.d = 0 /\ a.n # 0

IsFinite(a) == a.d # 0

Neg(a) == [a EXCEPT !.n = -a.n]

Add(a, b) ==
    CASE IsNaN(a) \/ IsNaN(b) -> NaN
      [] IsInf(a) /\ IsInf(b) -> IF a.n = b.n THEN a ELSE NaN
      [] IsInf(a) /\ IsFinite(b) -> a
      [] IsFinite(a) /\ IsInf(b) -> b
      [] IsFinite(a) /\ IsFinite(b) /\ a.n = 0 -> b
      [] IsFinite(a) /\ IsFinite(b) /\ a.n # 0 /\ b.n = 0 -> a
      [] IsFinite(a) /\ IsFinite(b) /\ a.n # 0 /\ b.n # 0 /\ a.r = b.r ->
             Norm(a.n * b.d + b.n * a.d, a.d * b.d, a.r)

Sub(a, b) == Add(a, Neg(b))

\* the radicands are square-free, so sqrt(a.r) * sqrt(b.r) is their common
\* factor g times the root of the square-free (a.r / g) * (b.r / g)
Mul(a, b) ==
    LET g == GCD(a.r, b.r)
    IN  Norm(a.n * b.n * g, a.d * b.d, (a.r \div g) * (b.r \div g))

\* 1/a: 1/0 is +inf, 1/inf is 0, 1/NaN is NaN
Recip(a) ==
    IF IsNaN(a) THEN NaN
    ELSE IF a.n = 0 THEN PosInf
    ELSE Norm(a.d * Sign(a.n), Abs(a.n) * a.r, a.r)

Div(a, b) == Mul(a, Recip(b))

\* math.sqrt / np.sqrt of a rational (the notebooks take roots of variances
\* only); a negative argument gives NaN
Sqrt(a) ==
    IF IsNaN(a) \/ a.n < 0 THEN NaN
    ELSE IF IsInf(a) THEN a
    ELSE Norm(1, a.d, a.n * a.d)

\* a == b as NumPy compares: NaN equals nothing
Eq(a, b) == ~IsNaN(a) /\ ~IsNaN(b) /\ a = b

\* a <= b as NumPy compares (false when either is NaN)
Leq(a, b) ==
    LET sq(x) == Mul(x, x)
        leqRat(x, y) == CASE IsFinite(x) /\ IsFinite(y) -> x.n * y.d <= y.n * x.d
                          [] IsInf(x) /\ IsFinite(y) -> x.n < 0
                          [] IsFinite(x) /\ IsInf(y) -> y.n > 0
                          [] IsInf(x) /\ IsInf(y) -> x.n <= y.n
    IN  /\ ~IsNaN(a)
        /\ ~IsNaN(b)
        /\ CASE a.r = 1 /\ b.r = 1 -> leqRat(a, b)
             [] OTHER ->
                  CASE a.n <= 0 /\ b.n >= 0 -> TRUE
                    [] a.n > 0 /\ b.n < 0 -> FALSE
                    [] a.n > 0 /\ b.n = 0 -> FALSE
                    [] a.n = 0 /\ b.n < 0 -> FALSE
                    [] a.n > 0 /\ b.n > 0 -> leqRat(sq(a), sq(b))
                    [] a.n < 0 /\ b.n < 0 -> leqRat(sq(b), sq(a))

-----------------------------------------------------------------------------
(* Arrays: a 1-D array is a sequence of numbers, a 2-D array a sequence of *)
(* rows.                                                                   *)

RECURSIVE SumSeq(_)
\* np.sum over a sequence, first element first
\* an array held as stored values: a 1-D array, a 2-D array
Array1(v) == v \o <<>>

Array2(M) == [i \in 1..Len(M) |-> M[i] \o <<>>] \o <<>>

SumSeq(s) == IF Len(s) = 0 THEN Zero
             ELSE IF Len(s) = 1 THEN s[1]
             ELSE Add(SumSeq(SubSeq(s, 1, Len(s) - 1)), s[Len(s)])

NumRows(M) == Len(M)

NumCols(M) == Len(M[1])

\* np.size of a 2-D array
Size2(M) == NumRows(M) * NumCols(M)

\* M.T
Transpose(M) == [j \in 1..NumCols(M) |-> [i \in 1..NumRows(M) |-> M[i][j]]]

Column(M, j) == [i \in 1..NumRows(M) |-> M[i][j]]

RECURSIVE Flatten(_)
Flatten(M) == IF Len(M) = 0 THEN <<>> ELSE M[1] \o Flatten(Tail(M))

\* np.dot of two 1-D arrays
Dot1(u, v) == SumSeq([k \in 1..Len(u) |-> Mul(u[k], v[k])])

\* np.dot / @ of two 2-D arrays with matching inner dimensions
Dot(M, N) == [i \in 1..NumRows(M) |->
                [j \in 1..NumCols(N) |-> Dot1(M[i], Column(N, j))]]

\* scalar * 2-D array
Scale(c, M) == [i \in 1..NumRows(M) |-> [j \in 1..NumCols(M) |-> Mul(c, M[i][j])]]

\* 2-D array / scalar
DivBy(M, c) == [i \in 1..NumRows(M) |-> [j \in 1..NumCols(M) |-> Div(M[i][j], c)]]

\* np.mean of a 1-D array: the sum over the size
Mean1(v) == Div(SumSeq(v), Num(Len(v)))

\* the mutant of NanMean: the NaNs are left out of the sum but still counted
NanMeanCountsAll(v) ==
    Div(SumSeq([k \in 1..Len(v) |-> IF IsNaN(v[k]) THEN Zero ELSE v[k]]), Num(Len(v)))

\* np.nanmean of a 1-D array: NaNs replaced by 0, the sum divided by the
\* number of non-NaN entries
NanMean(v) ==
    LET arr == [k \in 1..Len(v) |-> IF IsNaN(v[k]) THEN Zero ELSE v[k]]
        cnt == Cardinality({k \in 1..Len(v) : ~IsNaN(v[k])})
    IN  Div(SumSeq(arr), Num(cnt))

\* the mutant of MeanAll: NaN entries skipped
MeanAllSkipNaN(M) == NanMean(Flatten(M))

\* the sum of the flattened array divided by one less than its size
MeanAllSampleDivisor(M) == Div(SumSeq(Flatten(M)), Num(Size2(M) - 1))

\* np.mean(M) with no axis: the mean of the flattened array
MeanAll(M) == Mean1(Flatten(M))

\* np.mean(M, axis=0): one mean per column
MeanAxis0(M) == [j \in 1..NumCols(M) |-> Mean1(Column(M, j))]

\* M - v, v broadcast over the rows of M
SubRow(M, v) == [i \in 1..NumRows(M) |-> [j \in 1..NumCols(M) |-> Sub(M[i][j], v[j])]]

\* M / v, v broadcast over the rows of M
DivRow(M, v) == [i \in 1..NumRows(M) |-> [j \in 1..NumCols(M) |-> Div(M[i][j], v[j])]]

\* v - c, the scalar c broadcast
SubScalar1(v, c) == [k \in 1..Len(v) |-> Sub(v[k], c)]

\* the mutant of Var1: the biased estimator (ddof ignored)
Var1Biased(v, ddof) ==
    LET m == Mean1(v)
        sqd == [k \in 1..Len(v) |-> Mul(Sub(v[k], m), Sub(v[k], m))]
    IN  Div(SumSeq(sqd), Num(Len(v)))

\* np.var of a 1-D array: mean of squared deviations, divisor N - ddof
Var1(v, ddof) ==
    CHOOSE var \in {Div(SumSeq(sqd), Num(Len(v) - ddof)) :
                       sqd \in {Array1([k \in 1..Len(v) |-> Mul(Sub(v[k], m), Sub(v[k], m))]) :
                                  m \in {Mean1(v)}}} : TRUE

\* np.var(M, axis=0, ddof)
VarAxis0(M, ddof) == [j \in 1..NumCols(M) |-> Var1(Column(M, j), ddof)]

\* np.std(M, axis=0, ddof)
StdAxis0(M, ddof) == [j \in 1..NumCols(M) |-> Sqrt(Var1(Column(M, j), ddof))]

\* the mutant of Cov: the row means are not removed
CovNoCentering(m, ddof) ==
    Scale(Div(One, Num(NumCols(m) - ddof)), Dot(m, Transpose(m)))

\* np.cov(m, ddof): each row of m is a variable; the row means are removed,
\* then c = X . X^T and c *= 1/(N - ddof)
Cov(m, ddof) ==
    LET avg == [i \in 1..NumRows(m) |-> Mean1(m[i])]
        fact == Num(NumCols(m) - ddof)
    IN  CHOOSE c \in {Array2(Scale(Div(One, fact), Dot(X, Transpose(X)))) :
                        X \in {Array2([i \in 1..NumRows(m) |-> SubScalar1(m[i], avg[i])])}} : TRUE

\* np.diagonal
Diagonal(M) == [j \in 1..NumRows(M) |-> M[j][j]]

\* elementwise M == N for arrays of the same shape
EqElem(M, N) == [i \in 1..NumRows(M) |-> [j \in 1..NumCols(M) |-> Eq(M[i][j], N[i][j])]]

\* .all() of a 2-D Boolean array
AllTrue(Bm) == \A i \in 1..Len(Bm) : \A j \in 1..Len(Bm[i]) : Bm[i][j]

\* np.identity(k)
Identity(k) == [i \in 1..k |-> [j \in 1..k |-> IF i = j THEN One ELSE Zero]]

\* an integer array literal
IntRow(s) == [k \in 1..Len(s) |-> Num(s[k])]

IntMatrix(M) == [i \in 1..Len(M) |-> IntRow(M[i])]

-----------------------------------------------------------------------------
(* The kernel: ns is the namespace (a name is bound iff it is in DOMAIN   *)
(* ns), out[k] the outputs cell k displayed (prints, then the value of a   *)
(* trailing expression), pc the next code cell, err the exception that     *)
(* stopped the run.                                                        *)

\* an assignment that leaves a name already bound at its first value
BindKeepsFirst(s, name, v) == [k \in DOMAIN s \cup {name} |-> IF k \in DOMAIN s THEN s[k] ELSE v]

Bind(s, name, v) == [k \in DOMAIN s \cup {name} |-> IF k = name THEN v ELSE s[k]]

Shown(o, cell, vals) == [k \in DOMAIN o \cup {cell} |-> IF k = cell THEN vals ELSE o[k]]

NoNames == [k \in {} |-> 0]

Running(cell) == pc = cell /\ err = "none"

-----------------------------------------------------------------------------
(* Data sets.  The notebooks' literals, and small generated integer arrays *)
(* (total magnitude at most MaxWeight) on which the same cells are run.    *)

RECURSIVE IntSeqs(_, _)
\* the integer sequences of length len with sum of magnitudes <= w
IntSeqs(len, w) ==
    IF len = 0 THEN {<<>>}
    ELSE UNION {{<<v>> \o t : t \in IntSeqs(len - 1, w - Abs(v))} : v \in (0 - w)..w}

Reshape(s, n, p) == [i \in 1..n |-> [j \in 1..p |-> Num(s[(i - 1) * p + j])]]

\* the integer matrices of total magnitude at most w
SmallMatrices(w) ==
    UNION {{Reshape(s, n, p) : s \in IntSeqs(n * p, w)} :
              <<n, p>> \in (1..MaxRows) \X (1..MaxCols)}

\* part 2, cell 4: A = np.array([2, -1, 6, 3])
VectorLiteral == IntRow(<<2, -1, 6, 3>>)

\* part 2, cell 7: A = np.array([[4, -2, 12],[-2, 1, -6],[12, -6, 36],[-6, 3, -18]])
MatrixLiteral == IntMatrix(<<<<4, -2, 12>>, <<-2, 1, -6>>, <<12, -6, 36>>, <<-6, 3, -18>>>>)

\* the data of part 2: the 1-D array of cell 4 and the data matrix of cell 7
Datasets2(w) ==
    {[vec |-> VectorLiteral, mat |-> MatrixLiteral]}
        \cup {[vec |-> M[1], mat |-> M] : M \in SmallMatrices(w)}

-----------------------------------------------------------------------------
(* Part 2: covariance_correlation_part2.ipynb, code cells in order.        *)

Init2 ==
    /\ data \in Datasets2(MaxWeight)
    /\ pc = 1
    /\ ns = NoNames
    /\ out = NoNames
    /\ err = "none"

\* import numpy as np
P2Cell1 ==
    /\ Running(1)
    /\ ns' = Bind(ns, "np", "module")
    /\ out' = Shown(out, 1, <<>>)
    /\ pc' = 2
    /\ UNCHANGED <<data, err>>

\* I = np.identity(4); print(I); I == I.T
P2Cell2 ==
    /\ Running(2)
    /\ LET I == Identity(4)
       IN  /\ ns' = Bind(ns, "I", I)
           /\ out' = Shown(out, 2, <<I, EqElem(I, Transpose(I))>>)
    /\ pc' = 3
    /\ UNCHANGED <<data, err>>

\* A = np.array([...]); A = A[np.newaxis,:]; np.dot(A, A.T)
\* print(np.diag(I)); print(np.diagonal(I)); print(I.diagonal());
\* print(np.trace(I)); print(I.trace())
P2Cell3 ==
    /\ Running(3)
    /\ LET dg == Diagonal(ns["I"])
           tr == SumSeq(dg)
       IN  out' = Shown(out, 3, <<dg, dg, dg, tr, tr>>)
    /\ pc' = 4
    /\ UNCHANGED <<data, ns, err>>

P2Cell4 ==
    /\ Running(4)
    /\ LET A == <<data.vec>>
       IN  /\ ns' = Bind(ns, "A", A)
           /\ out' = Shown(out, 4, <<Dot(A, Transpose(A))>>)
    /\ pc' = 5
    /\ UNCHANGED <<data, err>>

\* the product with the second factor transposed instead of the first
GramWrongSide(A) == Dot(A, Transpose(A))

\* np.dot(A.T, A)
Gram(A) == Dot(Transpose(A), A)

\* B = np.dot(A.T, A); print(B)
P2Cell5 ==
    /\ Running(5)
    /\ LET B == Gram(ns["A"])
       IN  /\ ns' = Bind(ns, "B", B)
           /\ out' = Shown(out, 5, <<B>>)
    /\ pc' = 6
    /\ UNCHANGED <<data, err>>

\* print(B); print(B.T); B == B.T
P2Cell6 ==
    /\ Running(6)
    /\ out' = Shown(out, 6, <<ns["B"], Transpose(ns["B"]), EqElem(ns["B"], Transpose(ns["B"]))>>)
    /\ pc' = 7
    /\ UNCHANGED <<data, ns, err>>

\* A = np.array([[...]]); C = np.dot(A.T, A); print(C)
P2Cell7 ==
    /\ Running(7)
    /\ LET A == data.mat
           C == Gram(A)
       IN  /\ ns' = Bind(Bind(ns, "A", A), "C", C)
           /\ out' = Shown(out, 7, <<C>>)
    /\ pc' = 8
    /\ UNCHANGED <<data, err>>

\* C == C.T
P2Cell8 ==
    /\ Running(8)
    /\ out' = Shown(out, 8, <<EqElem(ns["C"], Transpose(ns["C"]))>>)
    /\ pc' = 9
    /\ UNCHANGED <<data, ns, err>>

\* (C == C.T).all()
P2Cell9 ==
    /\ Running(9)
    /\ out' = Shown(out, 9, <<AllTrue(EqElem(ns["C"], Transpose(ns["C"])))>>)
    /\ pc' = 10
    /\ UNCHANGED <<data, ns, err>>

\* A_bar = np.mean(A, axis=0); print(A_bar)
P2Cell10 ==
    /\ Running(10)
    /\ LET A_bar == MeanAxis0(ns["A"])
       IN  /\ ns' = Bind(ns, "A_bar", A_bar)
           /\ out' = Shown(out, 10, <<A_bar>>)
    /\ pc' = 11
    /\ UNCHANGED <<data, err>>

\* the mutant of Centered: the mean of the whole array (axis forgotten)
CenteredNoAxis(A) == SubRow(A, [j \in 1..NumCols(A) |-> MeanAll(A)])

\* A - np.mean(A, axis=0)
Centered(A) == CHOOSE D \in {Array2(SubRow(A, mean)) : mean \in {Array1(MeanAxis0(A))}} : TRUE

\* print(A - np.mean(A,axis=0)); print(np.mean(A - np.mean(A,axis=0), axis=0))
P2Cell11 ==
    /\ Running(11)
    /\ \E D \in {Centered(ns["A"])} : out' = Shown(out, 11, <<D, MeanAxis0(D)>>)
    /\ pc' = 12
    /\ UNCHANGED <<data, ns, err>>

\* a mutant of CovByProduct: the wrong factor transposed (A0 @ A0.T)
CovByProductWrongSide(A0) == Scale(Div(One, Num(NumRows(A0) - 1)), Dot(A0, Transpose(A0)))

\* a mutant of CovByProduct: the divisor n instead of n - 1
CovByProductBiased(A0) == Scale(Div(One, Num(NumRows(A0))), Dot(Transpose(A0), A0))

\* 1/(A0.shape[0]-1) * (A0.T @ A0), for A0 with at least two rows
CovByProduct(A0) == Scale(Div(One, Num(NumRows(A0) - 1)), Dot(Transpose(A0), A0))

\* the centred matrix bound to A0 and written back to A as well
AssignCenteredInPlace(s) == Bind(Bind(s, "A", Centered(s["A"])), "A0", Centered(s["A"]))

\* A0 = A - A.mean(axis=0): the difference is a new array, bound to A0
AssignCentered(s) == Bind(s, "A0", Centered(s["A"]))

\* A0 = A - A.mean(axis=0); print(A0); 1/(A0.shape[0]-1) * (A0.T @ A0)
\* (the Python division 1/0 raises when A has a single row)
P2Cell12 ==
    /\ Running(12)
    /\ \E s \in {AssignCentered(ns)} :
           /\ ns' = s
           /\ IF NumRows(s["A0"]) - 1 = 0
              THEN /\ out' = Shown(out, 12, <<s["A0"]>>)
                   /\ err' = "ZeroDivisionError"
                   /\ pc' = pc
              ELSE /\ out' = Shown(out, 12, <<s["A0"], CovByProduct(s["A0"])>>)
                   /\ err' = err
                   /\ pc' = 13
    /\ UNCHANGED data

\* np.cov(A0.T, ddof=1)
P2Cell13 ==
    /\ Running(13)
    /\ out' = Shown(out, 13, <<Cov(Transpose(ns["A0"]), 1)>>)
    /\ pc' = 14
    /\ UNCHANGED <<data, ns, err>>

\* C = np.cov(A.T, ddof=1); print(C)
P2Cell14 ==
    /\ Running(14)
    /\ \E C \in {Cov(Transpose(ns["A"]), 1)} :
           /\ ns' = Bind(ns, "C", C)
           /\ out' = Shown(out, 14, <<C>>)
    /\ pc' = 15
    /\ UNCHANGED <<data, err>>

\* print(np.diagonal(C)); print(np.var(A, axis=0, ddof=1))
P2Cell15 ==
    /\ Running(15)
    /\ out' = Shown(out, 15, <<Diagonal(ns["C"]), VarAxis0(ns["A"], 1)>>)
    /\ pc' = 16
    /\ UNCHANGED <<data, ns, err>>

\* the mutant of Standardized: divided by the variance instead of the
\* standard deviation
StandardizedByVar(A) == DivRow(SubRow(A, MeanAxis0(A)), VarAxis0(A, 1))

\* the centred matrix divided by the population standard deviation (ddof=0)
StandardizedBiased(A) == DivRow(SubRow(A, MeanAxis0(A)), StdAxis0(A, 0))

\* (A - A.mean(axis=0)) / np.std(A, axis=0, ddof=1)
Standardized(A) ==
    CHOOSE Z \in {Array2(DivRow(SubRow(A, mean), std)) :
                    mean \in {Array1(MeanAxis0(A))}, std \in {Array1(StdAxis0(A, 1))}} : TRUE

\* Z = (A - A.mean(axis=0)) / np.std(A,axis=0,ddof=1);
\* print(np.std(Z,axis=0,ddof=1)); print(np.var(Z,axis=0,ddof=1))
P2Cell16 ==
    /\ Running(16)
    /\ \E Z \in {Standardized(ns["A"])} :
           /\ ns' = Bind(ns, "Z", Z)
           /\ out' = Shown(out, 16, <<StdAxis0(Z, 1), VarAxis0(Z, 1)>>)
    /\ pc' = 17
    /\ UNCHANGED <<data, err>>

\* np.clip(a, -1, 1); NaN stays NaN
Clip(a) == IF IsNaN(a) THEN a
           ELSE IF Leq(a, Num(-1)) THEN Num(-1)
           ELSE IF Leq(One, a) THEN One
           ELSE a

\* np.corrcoef(m): c = cov(m); c /= stddev[:, None]; c /= stddev[None, :];
\* clipped to [-1, 1]
Corrcoef(m) ==
    CHOOSE R \in {[i \in 1..NumRows(c) |->
                      [j \in 1..NumCols(c) |-> Clip(Div(Div(c[i][j], sd[i]), sd[j]))]] :
                    <<c, sd>> \in {<<cv, Array1([i \in 1..NumRows(cv) |-> Sqrt(cv[i][i])])>> :
                                     cv \in {Cov(m, 1)}}} : TRUE

\* R = 1/(Z.shape[0]-1) * (Z.T @ Z); print(R); print(np.corrcoef(Z.T))
P2Cell17 ==
    /\ Running(17)
    /\ \E R \in {CovByProduct(ns["Z"])} :
           /\ ns' = Bind(ns, "R", R)
           /\ out' = Shown(out, 17, <<R, Corrcoef(Transpose(ns["Z"]))>>)
    /\ pc' = 18
    /\ UNCHANGED <<data, err>>

\* !pip3 install sympy: a shell command, no name is bound; what it leaves
\* behind is whether sympy can be imported afterwards
P2Cell18 ==
    /\ Running(18)
    /\ \E importable \in BOOLEAN : out' = Shown(out, 18, <<importable>>)
    /\ pc' = 19
    /\ UNCHANGED <<data, ns, err>>

\* Gauss-Jordan elimination over the rationals, column by column: the first
\* nonzero entry at or below the next pivot row is swapped up, its row is
\* scaled to a leading 1 and the column is cleared in every other row.
\* inds collects the pivot columns, counted from 0.
RECURSIVE RrefFrom(_, _, _, _)
RrefFrom(M, col, npiv, pivots) ==
    IF col > NumCols(M) \/ npiv = NumRows(M)
    THEN [ref |-> M, inds |-> pivots]
    ELSE LET cand == {i \in (npiv + 1)..NumRows(M) : M[i][col].n # 0}
         IN  IF cand = {}
             THEN RrefFrom(M, col + 1, npiv, pivots)
             ELSE LET i0 == CHOOSE i \in cand : \A k \in cand : i <= k
                      S == [M EXCEPT ![npiv + 1] = M[i0], ![i0] = M[npiv + 1]]
                      prow == [j \in 1..NumCols(M) |-> Div(S[npiv + 1][j], S[npiv + 1][col])]
                      E == [i \in 1..NumRows(M) |->
                               IF i = npiv + 1 THEN prow
                               ELSE [j \in 1..NumCols(M) |->
                                        Sub(S[i][j], Mul(S[i][col], prow[j]))]]
                  IN  CHOOSE res \in {RrefFrom(R, col + 1, npiv + 1, Append(pivots, col - 1)) :
                                        R \in {Array2(E)}} : TRUE

\* sympy Matrix.rref(): the pair (reduced row echelon form, pivot columns)
Rref(M) == CHOOSE res \in {RrefFrom(R, 1, 0, <<>>) : R \in {Array2(M)}} : TRUE

\* the reduction applied to A itself, without the transpose
RrefNoTranspose(A) == Rref(A)

\* sympy.Matrix(A).T.rref()
RrefOfTranspose(A) == Rref(Transpose(A))

\* import sympy; ref, inds = sympy.Matrix(A).T.rref(); print(ref); print(inds)
P2Cell19 ==
    /\ Running(19)
    /\ IF out[18][1]
       THEN \E res \in {RrefOfTranspose(ns["A"])} :
                /\ ns' = Bind(Bind(Bind(ns, "sympy", "module"), "ref", res.ref),
                              "inds", res.inds)
                /\ out' = Shown(out, 19, <<res.ref, res.inds>>)
                /\ pc' = 20
                /\ err' = err
       ELSE /\ err' = "ModuleNotFoundError"
            /\ UNCHANGED <<ns, out, pc>>
    /\ UNCHANGED data

\* np.linalg.matrix_rank(M): the number of singular values above the
\* tolerance, which for these integer matrices is the rank of M
MatrixRank(M) == Len(Rref(M).inds)

\* np.linalg.matrix_rank(A)
P2Cell20 ==
    /\ Running(20)
    /\ out' = Shown(out, 20, <<MatrixRank(ns["A"])>>)
    /\ pc' = 21
    /\ UNCHANGED <<data, ns, err>>

\* np.linalg.cond(M): the ratio of the largest to the smallest singular
\* value of M; the smallest is zero up to rounding when M is rank deficient
Cond(M) ==
    [of |-> M,
     singular |-> MatrixRank(M) < (IF NumRows(M) < NumCols(M) THEN NumRows(M) ELSE NumCols(M))]

\* np.linalg.cond(A)
P2Cell21 ==
    /\ Running(21)
    /\ out' = Shown(out, 21, <<Cond(ns["A"])>>)
    /\ pc' = 22
    /\ UNCHANGED <<data, ns, err>>

Next2 ==
    \/ P2Cell1 \/ P2Cell2 \/ P2Cell3 \/ P2Cell4 \/ P2Cell5 \/ P2Cell6
    \/ P2Cell7 \/ P2Cell8 \/ P2Cell9 \/ P2Cell10 \/ P2Cell11 \/ P2Cell12
    \/ P2Cell13 \/ P2Cell14 \/ P2Cell15 \/ P2Cell16 \/ P2Cell17 \/ P2Cell18
    \/ P2Cell19 \/ P2Cell20 \/ P2Cell21

SpecPart2 == Init2 /\ [][Next2]_vars

-----------------------------------------------------------------------------
(* Part 2: properties.                                                     *)

Ran(cell) == cell \in DOMAIN out

\* cov(a_j, a_k) = 1/(n-1) * sum_i (a_ij - mean_j)(a_ik - mean_k), the
\* definition the notebook states for two columns of the data matrix
PairCov(A, j, k) ==
    LET n == NumRows(A)
    IN  CHOOSE c \in {Mul(Div(One, Num(n - 1)),
                          SumSeq([i \in 1..n |-> Mul(Sub(A[i][j], mj), Sub(A[i][k], mk))])) :
                        mj \in {Mean1(Column(A, j))}, mk \in {Mean1(Column(A, k))}} : TRUE

\* cell 12 displayed the covariance matrix (the data matrix has n >= 2 rows)
ProductShown == Ran(12) /\ Len(out[12]) = 2

NonConstant(A, j) == \E i \in 1..NumRows(A) : A[i][j] # A[1][j]

\* C1: the covariance matrix 1/(n-1) * A0^T A0 of an n-by-p data matrix,
\* n >= 2, is p-by-p and symmetric: C[j][k] = C[k][j] for all j, k.
C1_CovarianceSquareSymmetric ==
    ProductShown =>
        LET C == out[12][2]
            p == NumCols(ns["A"])
        IN  /\ NumRows(ns["A"]) >= 2
            /\ Len(C) = p
            /\ \A j \in 1..p : Len(C[j]) = p
            /\ \A j \in 1..p : \A k \in 1..p : Eq(C[j][k], C[k][j])

C1_Witness ==
    /\ ProductShown
    /\ NumCols(ns["A"]) = 2
    /\ NumRows(ns["A"]) = 3
    /\ out[12][2][1][2] = Norm(-1, 6, 1)

-----------------------------------------------------------------------------
(* Part 1: the first notebook (mean, missing values, variance, covariance  *)
(* of two series), code cells in order.                                    *)

\* part 1, cell 2: x = np.array([[1,2,3,4,5,6]])
XLiteral == <<1, 2, 3, 4, 5, 6>>

\* part 1, cell 3: y = np.array([[1, 2, 3, np.nan, 5, 6]]): the NaN sits at index 3
YLiteral == [k \in 1..6 |-> IF k = 4 THEN NaN ELSE Num(k)]

\* part 1, cell 9: x = np.array([-4, -1, 1, 3, 1, 6])
X2Literal == <<-4, -1, 1, 3, 1, 6>>

\* part 1, cell 9: y = np.array([-4, 2, -1, 2, 2, 5])
Y2Literal == <<-4, 2, -1, 2, 2, 5>>

\* v with np.nan at the positions in K
WithNaN(v, K) == [k \in 1..Len(v) |-> IF k \in K THEN NaN ELSE Num(v[k])]

\* the data of part 1: x of cell 2, y of cell 3, x and y of cell 9
Datasets1(w) ==
    {[x1 |-> XLiteral, y1 |-> YLiteral, x2 |-> X2Literal, y2 |-> Y2Literal]}
        \cup UNION {{[x1 |-> SubSeq(s, 1, len),
                      y1 |-> WithNaN(SubSeq(s, len + 1, 2 * len), K),
                      x2 |-> SubSeq(s, len + 1, 2 * len),
                      y2 |-> SubSeq(s, 1, len)] :
                        <<s, K>> \in IntSeqs(2 * len, w) \X SUBSET (1..len)} :
                     len \in 1..MaxLen}

RECURSIVE IntSum(_)
\* Python integer addition of the listed terms
IntSum(s) == IF Len(s) = 0 THEN 0 ELSE s[1] + IntSum(Tail(s))

\* ~np.isnan(M): the Boolean mask of the entries that are not NaN
NotNaNMask(M) == [i \in 1..NumRows(M) |-> [j \in 1..NumCols(M) |-> ~IsNaN(M[i][j])]]

RECURSIVE Pick(_, _)
Pick(v, b) == IF Len(v) = 0 THEN <<>>
              ELSE (IF b[1] THEN <<v[1]>> ELSE <<>>) \o Pick(Tail(v), Tail(b))

\* M[mask]: the 1-D array of the entries of M where the mask is True
Masked(M, mask) == Pick(Flatten(M), Flatten(mask))

Init1 ==
    /\ data \in Datasets1(MaxWeight)
    /\ pc = 1
    /\ ns = NoNames
    /\ out = NoNames
    /\ err = "none"

\* import numpy as np; import math
P1Cell1 ==
    /\ Running(1)
    /\ ns' = Bind(Bind(ns, "np", "module"), "math", "module")
    /\ out' = Shown(out, 1, <<>>)
    /\ pc' = 2
    /\ UNCHANGED <<data, err>>

\* x = np.array([[...]]); print((1 + 2 + ... + 6)/6); print(x.sum()/x.size);
\* print(np.mean(x)); print(x.mean())
P1Cell2 ==
    /\ Running(2)
    /\ LET x == <<IntRow(data.x1)>>
       IN  /\ ns' = Bind(ns, "x", x)
           /\ out' = Shown(out, 2, <<Div(Num(IntSum(data.x1)), Num(Len(data.x1))),
                                     Div(SumSeq(Flatten(x)), Num(Size2(x))),
                                     MeanAll(x),
                                     MeanAll(x)>>)
    /\ pc' = 3
    /\ UNCHANGED <<data, err>>

\* y = np.array([[1, 2, 3, np.nan, 5, 6]]); y.mean()
P1Cell3 ==
    /\ Running(3)
    /\ LET y == <<data.y1>>
       IN  /\ ns' = Bind(ns, "y", y)
           /\ out' = Shown(out, 3, <<MeanAll(y)>>)
    /\ pc' = 4
    /\ UNCHANGED <<data, err>>

\* np.nanmean(y)
P1Cell4 ==
    /\ Running(4)
    /\ out' = Shown(out, 4, <<NanMean(Flatten(ns["y"]))>>)
    /\ pc' = 5
    /\ UNCHANGED <<data, ns, err>>

\* valid = ~np.isnan(y); print(np.mean(y[valid])); print(y[valid].mean())
P1Cell5 ==
    /\ Running(5)
    /\ LET valid == NotNaNMask(ns["y"])
       IN  /\ ns' = Bind(ns, "valid", valid)
           /\ out' = Shown(out, 5, <<Mean1(Masked(ns["y"], valid)),
                                     Mean1(Masked(ns["y"], valid))>>)
    /\ pc' = 6
    /\ UNCHANGED <<data, err>>

\* M - c for a 2-D array and a scalar
SubScalar2(M, c) == [i \in 1..NumRows(M) |-> SubScalar1(M[i], c)]

\* xi = x - np.mean(x); x_var = np.dot(xi,xi.T)/(np.size(x)-1); print(x_var)
P1Cell6 ==
    /\ Running(6)
    /\ LET xi == SubScalar2(ns["x"], MeanAll(ns["x"]))
           x_var == DivBy(Dot(xi, Transpose(xi)), Num(Size2(ns["x"]) - 1))
       IN  /\ ns' = Bind(Bind(ns, "xi", xi), "x_var", x_var)
           /\ out' = Shown(out, 6, <<x_var>>)
    /\ pc' = 7
    /\ UNCHANGED <<data, err>>

\* print(np.var(x,ddof=1))
P1Cell7 ==
    /\ Running(7)
    /\ out' = Shown(out, 7, <<Var1(Flatten(ns["x"]), 1)>>)
    /\ pc' = 8
    /\ UNCHANGED <<data, ns, err>>

\* x_std = math.sqrt(np.dot(xi,xi.T)/(np.size(x)-1)); print(x_std);
\* print(np.std(x,ddof=1))
P1Cell8 ==
    /\ Running(8)
    /\ LET xi == ns["xi"]
           x_std == Sqrt(DivBy(Dot(xi, Transpose(xi)), Num(Size2(ns["x"]) - 1))[1][1])
       IN  /\ ns' = Bind(ns, "x_std", x_std)
           /\ out' = Shown(out, 8, <<x_std, Sqrt(Var1(Flatten(ns["x"]), 1))>>)
    /\ pc' = 9
    /\ UNCHANGED <<data, err>>

\* x = np.array([-4, -1, 1, 3, 1, 6]); y = np.array([-4, 2, -1, 2, 2, 5])
P1Cell9 ==
    /\ Running(9)
    /\ ns' = Bind(Bind(ns, "x", IntRow(data.x2)), "y", IntRow(data.y2))
    /\ out' = Shown(out, 9, <<>>)
    /\ pc' = 10
    /\ UNCHANGED <<data, err>>

\* the same quotient with the divisor np.size(x)
XYCovBiased(xi, yi, size) == Div(Dot1(xi, yi), Num(size))

\* np.dot(xi.T,yi)/(np.size(x)-1): the transpose of a 1-d array is the array
XYCov(xi, yi, size) == Div(Dot1(xi, yi), Num(size - 1))

\* xi = x - np.mean(x); yi = y - np.mean(y);
\* xy_cov = np.dot(xi.T,yi)/(np.size(x)-1); print(xy_cov)
P1Cell10 ==
    /\ Running(10)
    /\ LET xi == SubScalar1(ns["x"], Mean1(ns["x"]))
           yi == SubScalar1(ns["y"], Mean1(ns["y"]))
           xy_cov == XYCov(xi, yi, Len(ns["x"]))
       IN  /\ ns' = Bind(Bind(Bind(ns, "xi", xi), "yi", yi), "xy_cov", xy_cov)
           /\ out' = Shown(out, 10, <<xy_cov>>)
    /\ pc' = 11
    /\ UNCHANGED <<data, err>>

\* np.cov(x,y,ddof=1): x and y are stacked as the two variables
P1Cell11 ==
    /\ Running(11)
    /\ out' = Shown(out, 11, <<Cov(<<ns["x"], ns["y"]>>, 1)>>)
    /\ pc' = 12
    /\ UNCHANGED <<data, ns, err>>

\* xyi = np.vstack((xi,yi)); print(xyi)
P1Cell12 ==
    /\ Running(12)
    /\ LET xyi == <<ns["xi"], ns["yi"]>>
       IN  /\ ns' = Bind(ns, "xyi", xyi)
           /\ out' = Shown(out, 12, <<xyi>>)
    /\ pc' = 13
    /\ UNCHANGED <<data, err>>

\* the mutant of StackedCov: the other factor transposed
StackedCovWrongSide(xyi, size) == DivBy(Dot(Transpose(xyi), xyi), Num(size - 1))

\* np.dot(xyi,xyi.T)/(np.size(x)-1)
StackedCov(xyi, size) == DivBy(Dot(xyi, Transpose(xyi)), Num(size - 1))

\* xy_cov2 = np.dot(xyi,xyi.T)/(np.size(x)-1); print(xy_cov2)
P1Cell13 ==
    /\ Running(13)
    /\ LET xy_cov2 == StackedCov(ns["xyi"], Len(ns["x"]))
       IN  /\ ns' = Bind(ns, "xy_cov2", xy_cov2)
           /\ out' = Shown(out, 13, <<xy_cov2>>)
    /\ pc' = 14
    /\ UNCHANGED <<data, err>>

\* print(np.var(x,ddof=1)); print(np.var(y,ddof=1))
P1Cell14 ==
    /\ Running(14)
    /\ out' = Shown(out, 14, <<Var1(ns["x"], 1), Var1(ns["y"], 1)>>)
    /\ pc' = 15
    /\ UNCHANGED <<data, ns, err>>

\* cells 1 to 14: the mean, the variance and the covariance
Next1 ==
    \/ P1Cell1 \/ P1Cell2 \/ P1Cell3 \/ P1Cell4 \/ P1Cell5 \/ P1Cell6 \/ P1Cell7
    \/ P1Cell8 \/ P1Cell9 \/ P1Cell10 \/ P1Cell11 \/ P1Cell12 \/ P1Cell13
    \/ P1Cell14

SpecPart1 == Init1 /\ [][Next1]_vars

-----------------------------------------------------------------------------
(* Part 1, cells 15 to 17: correlation with NumPy, SciPy and Pandas, and   *)
(* the plot.                                                               *)

\* the largest k in lo..hi with (2k - 1)/200 <= a, for -1 <= a <= 1
RECURSIVE RoundSearch(_, _, _)
RoundSearch(a, lo, hi) ==
    IF lo = hi THEN lo
    ELSE LET mid == (lo + hi + 1) \div 2
         IN  IF Leq(Norm(2 * mid - 1, 200, 1), a)
             THEN RoundSearch(a, mid, hi)
             ELSE RoundSearch(a, lo, mid - 1)

\* np.round(a, 2) of a correlation (NaN, or a value in [-1, 1]): the nearest
\* multiple of 1/100, a tie going to the even multiple
Round2(a) ==
    IF ~IsFinite(a) THEN a
    ELSE LET k == RoundSearch(a, -100, 100)
         IN  IF a = Norm(2 * k - 1, 200, 1) /\ k % 2 = 1
             THEN Norm(k - 1, 100, 1)
             ELSE Norm(k, 100, 1)

Round2M(M) == [i \in 1..NumRows(M) |-> [j \in 1..NumCols(M) |-> Round2(M[i][j])]]

\* the two-sided p-value scipy attaches to a correlation r of n pairs; its
\* value (a beta distribution tail) is kept symbolic
PValue(r, n) == [pvalue_of |-> r, n |-> n]

\* np.round of a p-value, kept symbolic with it
RoundP(p) == [round2_of |-> p]

\* pearsonr(a, b) for len(a) >= 2: (statistic, pvalue)
PearsonR(a, b) == LET r == Corrcoef(<<a, b>>)[1][2] IN <<r, PValue(r, Len(a))>>

\* import scipy as sp; from scipy.stats import pearsonr; import pandas as pd;
\* xy = xyi.T; corr_np = np.corrcoef(xy[:,0],xy[:,1]); print(np.round(corr_np,2));
\* corr_sp = sp.stats.pearsonr(xy[:,0],xy[:,1]); print(np.round(corr_sp,2));
\* df1 = pd.DataFrame(xy); print(np.round(df1.corr(method='pearson'),2))
\* (pearsonr raises ValueError when the series have fewer than 2 elements)
P1Cell15 ==
    /\ Running(15)
    /\ \E xy \in {Transpose(ns["xyi"])} :
       \E corr_np \in {Corrcoef(<<Column(xy, 1), Column(xy, 2)>>)} :
       \E corr_sp \in {PearsonR(Column(xy, 1), Column(xy, 2))} :
       \E df1 \in {xy} :
         LET imported == Bind(Bind(Bind(ns, "sp", "module"), "pearsonr", "function"),
                              "pd", "module")
             early == Bind(Bind(imported, "xy", xy), "corr_np", corr_np)
         IN  IF NumRows(xy) < 2
             THEN /\ ns' = early
                  /\ out' = Shown(out, 15, <<Round2M(corr_np)>>)
                  /\ err' = "ValueError"
                  /\ pc' = pc
             ELSE /\ \E corr_pd \in {Corrcoef(Transpose(df1))} :
                         out' = Shown(out, 15, <<Round2M(corr_np),
                                                 <<Round2(corr_sp[1]), RoundP(corr_sp[2])>>,
                                                 Round2M(corr_pd)>>)
                  /\ ns' = Bind(Bind(early, "corr_sp", corr_sp), "df1", df1)
                  /\ err' = err
                  /\ pc' = 16
    /\ UNCHANGED data

\* DataFrame.corr(method=lambda x, y: pearsonr(x, y)[k - 1]) on a frame
\* without NaN: 1.0 on the diagonal, the k-th component of pearsonr of the
\* two columns elsewhere, filled symmetrically
CorrCallable(df, k) ==
    [i \in 1..NumCols(df) |->
        [j \in 1..NumCols(df) |->
            IF i = j THEN One
            ELSE IF i < j THEN PearsonR(Column(df, i), Column(df, j))[k]
            ELSE PearsonR(Column(df, j), Column(df, i))[k]]]

\* correlation_matrix = df1.corr(method=lambda x, y: pearsonr(x, y)[0]);
\* pvalues = df1.corr(method=lambda x, y: pearsonr(x, y)[1]);
\* print(correlation_matrix); print(pvalues)
P1Cell16 ==
    /\ Running(16)
    /\ \E correlation_matrix \in {CorrCallable(ns["df1"], 1)} :
       \E pvalues \in {CorrCallable(ns["df1"], 2)} :
           /\ ns' = Bind(Bind(ns, "correlation_matrix", correlation_matrix),
                         "pvalues", pvalues)
           /\ out' = Shown(out, 16, <<correlation_matrix, pvalues>>)
    /\ pc' = 17
    /\ UNCHANGED <<data, err>>

\* len(np.arange(1, 7))
PlotAbscissaLen == 6

\* import matplotlib as mpl; import matplotlib.pyplot as plt;
\* fig, (ax1, ax2) = plt.subplots(1,2); ax1.scatter(xy[:,0], xy[:,1]); ...
\* lx1,lx2 = ax2.plot(np.arange(1, 7), xy); ...; plt.show()
\* (plot raises ValueError when xy does not have 6 rows)
P1Cell17 ==
    /\ Running(17)
    /\ LET axes == Bind(Bind(Bind(Bind(Bind(ns, "mpl", "module"), "plt", "module"),
                                  "fig", "Figure"), "ax1", "Axes"), "ax2", "Axes")
       IN  IF NumRows(ns["xy"]) # PlotAbscissaLen
           THEN /\ ns' = axes
                /\ out' = Shown(out, 17, <<>>)
                /\ err' = "ValueError"
                /\ pc' = pc
           ELSE /\ ns' = Bind(Bind(axes, "lx1", "Line2D"), "lx2", "Line2D")
                /\ out' = Shown(out, 17, <<[scatter |-> <<Column(ns["xy"], 1), Column(ns["xy"], 2)>>,
                                            lines |-> Transpose(ns["xy"])]>>)
                /\ err' = err
                /\ pc' = 18
    /\ UNCHANGED data

-----------------------------------------------------------------------------
(* Both notebooks, each run once from its first code cell to its last.  The *)
(* runs followed here are the notebooks' own data and, for every shape      *)
(* within the bounds, the integer arrays with at most one nonzero entry.    *)

UnitDatasets1 ==
    {[x1 |-> XLiteral, y1 |-> YLiteral, x2 |-> X2Literal, y2 |-> Y2Literal]}
        \cup UNION {{[x1 |-> SubSeq(s, 1, len),
                      y1 |-> WithNaN(SubSeq(s, len + 1, 2 * len), K),
                      x2 |-> SubSeq(s, len + 1, 2 * len),
                      y2 |-> SubSeq(s, 1, len)] :
                        <<s, K>> \in IntSeqs(2 * len, 1) \X {{}, {len}}} :
                     len \in 1..MaxLen}

UnitDatasets2 ==
    {[vec |-> VectorLiteral, mat |-> MatrixLiteral]}
        \cup UNION {{[vec |-> Reshape(s, n, p)[1], mat |-> Reshape(s, n, p)] :
                        s \in IntSeqs(n * p, 1)} :
                     <<n, p>> \in (1..MaxRows) \X (1..MaxCols)}

\* which notebook the kernel is running
FirstNotebook == "x1" \in DOMAIN data

SecondNotebook == "vec" \in DOMAIN data

InitNotebooks ==
    /\ data \in UnitDatasets1 \cup UnitDatasets2
    /\ pc = 1
    /\ ns = NoNames
    /\ out = NoNames
    /\ err = "none"

NextNotebooks ==
    \/ FirstNotebook /\ Next1
    \/ FirstNotebook /\ P1Cell15
    \/ FirstNotebook /\ P1Cell16
    \/ FirstNotebook /\ P1Cell17
    \/ SecondNotebook /\ Next2

SpecNotebooks == InitNotebooks /\ [][NextNotebooks]_vars

-----------------------------------------------------------------------------
(* Part 1: properties.                                                     *)

HasNaN(v) == \E k \in 1..Len(v) : IsNaN(v[k])

\* C6: the mean of a vector holding at least one NaN is NaN, whatever the
\* other elements are and wherever the NaN sits.
C6_MeanOfNaNVectorIsNaN ==
    (Ran(3) /\ HasNaN(data.y1)) => IsNaN(out[3][1])

C6_Witness ==
    /\ Ran(3)
    /\ Len(data.y1) = 3
    /\ IsNaN(data.y1[2])
    /\ data.y1[1] = Num(1)
    /\ data.y1[3] = Num(-1)
    /\ IsNaN(out[3][1])

\* C7: np.nanmean(y), np.mean(y[valid]) and y[valid].mean() agree: each is
\* the sum of the non-NaN elements over their number (NaN when there is no
\* such element); for y = [1, 2, 3, NaN, 5, 6] that is 17/5.
C7_NanMeanEqualsMaskedMean ==
    Ran(5) =>
        LET kept == {k \in 1..Len(data.y1) : ~IsNaN(data.y1[k])}
            tot[K \in SUBSET kept] ==
                IF K = {} THEN 0
                ELSE LET k == CHOOSE e \in K : TRUE
                     IN  data.y1[k].n + tot[K \ {k}]
        IN  /\ out[4][1] = out[5][1]
            /\ out[4][1] = out[5][2]
            /\ kept # {} => Eq(out[4][1], Norm(tot[kept], Cardinality(kept), 1))
            /\ kept = {} => IsNaN(out[4][1])
            /\ data.y1 = YLiteral => out[4][1] = Norm(17, 5, 1)

C7_Witness ==
    /\ Ran(5)
    /\ data.y1 = YLiteral
    /\ out[5][1] = Norm(17, 5, 1)
    /\ IsNaN(out[3][1])

-----------------------------------------------------------------------------
(* Part 2: properties of the standardized matrix, the Gram product and the *)
(* rank.                                                                   *)

AllNonConstant(A) == \A j \in 1..NumCols(A) : NonConstant(A, j)

\* the state in which the given cell has just completed
JustRan(cell) == Ran(cell) /\ pc = cell + 1 /\ err = "none"

SquareOfSize(M, p) == Len(M) = p /\ \A j \in 1..p : Len(M[j]) = p

\* C14: for an n-by-p integer matrix A the product A^T A is p-by-p and equals
\* its transpose, so C == C.T is True everywhere and (C == C.T).all() is True;
\* B from the 1-by-4 vector is 4-by-4 and C from the 4-by-3 matrix is 3-by-3.
C14_GramSquareSymmetric ==
    (Ran(9) /\ Ran(5)) =>
        LET B == out[5][1]
            C == out[7][1]
            q == Len(data.vec)
            p == NumCols(data.mat)
        IN  /\ SquareOfSize(B, q)
            /\ \A j \in 1..q : \A k \in 1..q : B[j][k] = B[k][j]
            /\ out[6][1] = out[6][2]
            /\ SquareOfSize(out[6][3], q)
            /\ AllTrue(out[6][3])
            /\ SquareOfSize(C, p)
            /\ \A j \in 1..p : \A k \in 1..p : C[j][k] = C[k][j]
            /\ SquareOfSize(out[8][1], p)
            /\ AllTrue(out[8][1])
            /\ out[9] = <<TRUE>>
            /\ data.vec = VectorLiteral => SquareOfSize(B, 4)
            /\ data.mat = MatrixLiteral => SquareOfSize(C, 3)

C14_Witness ==
    /\ Ran(9)
    /\ data.mat = MatrixLiteral
    /\ data.vec = VectorLiteral
    /\ out[5][1][1] = IntRow(<<4, -2, 12, 6>>)
    /\ out[7][1][1] = IntRow(<<200, -100, 600>>)
    /\ out[9] = <<TRUE>>

-----------------------------------------------------------------------------
(* Part 1: the four mean computations of cell 2.                           *)

\* C16: the hand sum divided by the count, x.sum()/x.size, np.mean(x) and
\* x.mean() all give the arithmetic average of the vector; for
\* x = [1,2,3,4,5,6] each gives 3.5.
C16_FourMeansAgree ==
    Ran(2) =>
        LET average == Norm(IntSum(data.x1), Len(data.x1), 1)
        IN  /\ Len(out[2]) = 4
            /\ \A k \in 1..4 : out[2][k] = average
            /\ data.x1 = XLiteral => \A k \in 1..4 : out[2][k] = Norm(7, 2, 1)

C16_Witness ==
    /\ Ran(2)
    /\ data.x1 = XLiteral
    /\ ns["x"] = <<IntRow(<<1, 2, 3, 4, 5, 6>>)>>
    /\ out[2] = <<Norm(7, 2, 1), Norm(7, 2, 1), Norm(7, 2, 1), Norm(7, 2, 1)>>

ZeroRow(v) == \A j \in 1..Len(v) : v[j] = Zero

\* C15: the 4-by-3 data matrix has rank exactly 1: the reduced row echelon
\* form of its transpose is [[1, -1/2, 3, -3/2], [0,0,0,0], [0,0,0,0]], the
\* 2nd and 3rd rows are all zero and the only pivot column index is 0.  For
\* every data matrix np.linalg.matrix_rank(A) is the number of pivots.
C15_DataMatrixHasRankOne ==
    Ran(20) =>
        /\ out[19] = <<ns["ref"], ns["inds"]>>
        /\ out[20] = <<Len(ns["inds"])>>
        /\ data.mat = MatrixLiteral =>
               /\ ns["ref"] = <<<<One, Norm(-1, 2, 1), Num(3), Norm(-3, 2, 1)>>,
                                IntRow(<<0, 0, 0, 0>>),
                                IntRow(<<0, 0, 0, 0>>)>>
               /\ ZeroRow(ns["ref"][2])
               /\ ZeroRow(ns["ref"][3])
               /\ ns["inds"] = <<0>>
               /\ out[20] = <<1>>

C15_Witness ==
    /\ Ran(20)
    /\ data.mat = MatrixLiteral
    /\ ns["A"] = MatrixLiteral
    /\ ns["ref"][1][2] = Norm(-1, 2, 1)
    /\ out[20] = <<1>>

-----------------------------------------------------------------------------
(* Both notebooks: the names each cell reads and assigns.                  *)

\* part 1, per code cell: the names the cell reads before assigning them
\* itself
Reads1 ==
    <<{}, {"np"}, {"np"}, {"np", "y"}, {"np", "y"}, {"np", "x"}, {"np", "x"},
      {"math", "np", "xi", "x"}, {"np"}, {"np", "x", "y"}, {"np", "x", "y"},
      {"np", "xi", "yi"}, {"np", "xyi", "x"}, {"np", "x", "y"}, {"np", "xyi"},
      {"df1", "pearsonr"}, {"np", "xy"}>>

\* part 1, per code cell: the names the cell assigns or imports
Writes1 ==
    <<{"np", "math"}, {"x"}, {"y"}, {}, {"valid"}, {"xi", "x_var"}, {},
      {"x_std"}, {"x", "y"}, {"xi", "yi", "xy_cov"}, {}, {"xyi"}, {"xy_cov2"}, {},
      {"sp", "pearsonr", "pd", "xy", "corr_np", "corr_sp", "df1"},
      {"correlation_matrix", "pvalues"},
      {"mpl", "plt", "fig", "ax1", "ax2", "lx1", "lx2"}>>

\* part 2, per code cell: the names the cell reads before assigning them
\* itself
Reads2 ==
    <<{}, {"np"}, {"np", "I"}, {"np"}, {"np", "A"}, {"B"}, {"np"}, {"C"}, {"C"},
      {"np", "A"}, {"np", "A"}, {"A"}, {"np", "A0"}, {"np", "A"}, {"np", "C", "A"},
      {"np", "A"}, {"np", "Z"}, {}, {"A"}, {"np", "A"}, {"np", "A"}>>

\* part 2, per code cell: the names the cell assigns or imports
Writes2 ==
    <<{"np"}, {"I"}, {}, {"A"}, {"B"}, {}, {"A", "C"}, {}, {}, {"A_bar"}, {}, {"A0"},
      {}, {"C"}, {}, {"Z"}, {"R"}, {}, {"sympy", "ref", "inds"}, {}, {}>>

Reads == IF FirstNotebook THEN Reads1 ELSE Reads2

Writes == IF FirstNotebook THEN Writes1 ELSE Writes2

\* C17: in a run of either notebook, top to bottom, every name the next cell
\* reads is bound (by the cells run so far, whose assignments are exactly the
\* bound names), and a read sees the latest binding: in part 2, B comes from
\* the 1-row A of cell 4, while C, A0, Z, the rank and the condition number
\* come from the data matrix bound to A in cell 7; in part 1, xi, yi, xyi and
\* xy come from the x and y of cell 9.
C17_ReadsSeeLatestBinding ==
    /\ (err = "none" /\ pc <= Len(Reads)) => Reads[pc] \subseteq DOMAIN ns
    /\ err = "none" => DOMAIN ns = UNION {Writes[k] : k \in 1..(pc - 1)}
    /\ SecondNotebook =>
           /\ Ran(5) => ns["B"] = Gram(<<data.vec>>)
           /\ Ran(7) => ns["A"] = data.mat /\ out[7] = <<Gram(data.mat)>>
           /\ Ran(12) => ns["A0"] = Centered(data.mat)
           /\ Ran(16) => ns["Z"] = Standardized(data.mat)
           /\ Ran(20) => out[20] = <<MatrixRank(data.mat)>>
           /\ Ran(21) => out[21] = <<Cond(data.mat)>>
    /\ FirstNotebook =>
           LET x == IntRow(data.x2)
               y == IntRow(data.y2)
           IN  /\ Ran(9) => ns["x"] = x /\ ns["y"] = y
               /\ Ran(10) => /\ ns["xi"] = SubScalar1(x, Mean1(x))
                             /\ ns["yi"] = SubScalar1(y, Mean1(y))
               /\ Ran(12) => ns["xyi"] = <<ns["xi"], ns["yi"]>>
               /\ "xy" \in DOMAIN ns => ns["xy"] = Transpose(ns["xyi"])
               /\ "df1" \in DOMAIN ns => ns["df1"] = ns["xy"]

C17_Witness ==
    /\ SecondNotebook
    /\ pc = 22
    /\ err = "none"
    /\ data.vec = VectorLiteral
    /\ data.mat = MatrixLiteral
    /\ ns["A"] = MatrixLiteral
    /\ NumRows(ns["B"]) = 4
    /\ NumRows(ns["Z"]) = 4
    /\ out[21][1].of = MatrixLiteral

-----------------------------------------------------------------------------
(* Part 2: the data matrix is only read.                                   *)

IntegerEntries(M) ==
    \A i \in 1..NumRows(M) : \A j \in 1..NumCols(M) : M[i][j].d = 1 /\ M[i][j].r = 1

\* C18: once cell 7 has bound A to the data matrix, no later cell changes it:
\* after A_bar, A0, the covariance matrices, Z and R have been computed, A
\* still holds the original integer entries, and np.var(A, axis=0, ddof=1),
\* the rref, np.linalg.matrix_rank(A) and np.linalg.cond(A), each as its
\* cell completes, are taken of those entries.
C18_DataMatrixUnchanged ==
    Ran(7) =>
        /\ ns["A"] = data.mat
        /\ IntegerEntries(ns["A"])
        /\ JustRan(15) => out[15][2] = VarAxis0(data.mat, 1)
        /\ JustRan(19) => out[19][1] = Rref(Transpose(data.mat)).ref
        /\ JustRan(20) => out[20][1] = MatrixRank(data.mat)
        /\ Ran(21) => out[21][1].of = data.mat

C18_Witness ==
    /\ Ran(21)
    /\ data.mat = MatrixLiteral
    /\ ns["A"] = MatrixLiteral
    /\ ns["A0"] # ns["A"]
    /\ ns["Z"] # ns["A"]
    /\ out[15][2][1] = Norm(184, 3, 1)
    /\ out[21][1].singular

====
